---- MODULE Spec2Model ----
(***************************************************************************)
(* A model of the Mobile_App client layer: the storage facade (validate,   *)
(* upload, delete, batch delete), the Firestore query helpers, the         *)
(* authentication facade with its default profile document, and the React  *)
(* AuthProvider state.  Each subsystem has its own variables and its own   *)
(* specification; a specification leaves the other subsystems' variables   *)
(* at their initial values.                                                *)
(***************************************************************************)
EXTENDS Integers, Sequences, FiniteSets, TLC

VARIABLES
  \* ---- storage: deleteFiles / deleteFile (auth.js 300-310, 392-413)
  blobs,        \* the objects in Cloud Storage: a set of paths
  dPc,          \* position of the deleteFiles call
  dPaths,       \* its filePaths argument
  dSdk,         \* per index: what deleteObject did ("pending", "ok", "err")
  dResults,     \* per index: the settled deleteFile promise, or Unsettled
  dRet,         \* what deleteFiles returned
  \* ---- Firestore: getUserStatements / getUserTransactions (AuthContext.js 270-389)
  tStatements,  \* the 'statements' collection: a set of docs
  tTransactions,\* the 'transactions' collection: a set of docs
  tPc,          \* position of the getUserTransactions call
  tUserId,      \* its userId argument
  tFilters,     \* its filters argument
  tStatementIds,\* the local statementIds
  tQueries,     \* the 'in' filters of the transactions queries issued so far
  tRet,         \* what getUserTransactions returned
  \* ---- sign-up / Google sign-in / createUserDocument (auth.js 21-97, 128-178)
  accounts,     \* the identity provider's accounts: a set of uids
  users,        \* the 'users' collection: uid -> document or NoDoc
  pPc,          \* per caller: position inside signUp / signInWithGoogle
  pKind,        \* per caller: which of the two it runs
  pUid,         \* per caller: the account it addresses
  pName,        \* per caller: signUp's displayName argument
  pCred,        \* per caller: the local `user` (the credential obtained), or "null"
  pExists,      \* per caller: userDoc.exists() as read by getDoc
  pRet,         \* per caller: the returned result
  \* ---- uploadFile / uploadStatement / validateFile (auth.js 219-298, 345-375)
  uPc,          \* position of the upload call
  uEntry,       \* "uploadFile" or "uploadStatement"
  uFile,        \* the file argument (NullFile for null)
  uPath,        \* the storage path
  uOnProgress,  \* whether an onProgress callback was passed
  uValidation,  \* validationResult
  uStarted,     \* whether uploadBytes / uploadBytesResumable was called
  uProgress,    \* how many times onProgress was invoked
  uRet,         \* how the returned promise settled
  uBefore,      \* the storage contents when the call was made
  \* ---- AuthProvider (AuthContext.js 23-159)
  user, userData, loading, error,   \* the four useState cells
  authUser,     \* the identity provider's current user (auth.currentUser)
  authQueue,    \* auth-state notifications not yet delivered to the callback
  fetches,      \* per uid: callback instances awaiting getCurrentUserData(uid)
  cPc,          \* per call slot: "idle", or the position of the call running in it
  cKind,        \* per call slot: which function runs
  cRes,         \* per call slot: how the awaited facade call settled
  cRet,         \* per call slot: what the last call in it returned
  errSetBy,     \* which call slot last called setError ("none" before any)
  started       \* how many context calls were started so far

delVars  == <<blobs, dPc, dPaths, dSdk, dResults, dRet>>
txVars   == <<tStatements, tTransactions, tPc, tUserId, tFilters, tStatementIds, tQueries, tRet>>
profVars == <<accounts, users, pPc, pKind, pUid, pName, pCred, pExists, pRet>>
upVars   == <<uPc, uEntry, uFile, uPath, uOnProgress, uValidation, uStarted, uProgress, uRet, uBefore>>
authVars == <<user, userData, loading, error, authUser, authQueue, fetches,
              cPc, cKind, cRes, cRet, errSetBy, started>>
vars     == <<delVars, txVars, profVars, upVars, authVars>>

\* JavaScript's null / undefined where the other values are records.
Null == [null |-> TRUE]

Range(s) == {s[i] : i \in 1..Len(s)}

SeqsUpTo(S, n) == UNION {[1..k -> S] : k \in 0..n}

(***************************************************************************)
(* Batch delete                                                            *)
(***************************************************************************)
Paths == {"statements/u1/a.pdf", "statements/u1/b.pdf"}

\* Longest filePaths list tried.
MaxPaths == 3

Unsettled == [status |-> "pending"]

DelInit ==
  /\ blobs \in SUBSET Paths
  /\ dPc = "idle"
  /\ dPaths = <<>>
  /\ dSdk = <<>>
  /\ dResults = <<>>
  /\ dRet = Null

\* deleteFile's result for one outcome of deleteObject: the catch turns the
\* SDK's rejection into a fulfilled { success: false, error }.
deleteFile(sdk) ==
  IF sdk = "ok"
    THEN [status |-> "fulfilled", value |-> [success |-> TRUE]]
    ELSE [status |-> "fulfilled", value |-> [success |-> FALSE, error |-> "storage/error"]]

\* results.filter(...) of lines 398-399, as index sets.
successfulOf(results) ==
  {i \in DOMAIN results : results[i].status = "fulfilled" /\ results[i].value.success}

\* Faulty variant of the failed filter: it counts rejected promises only.
failedMutant(results) ==
  {i \in DOMAIN results : results[i].status = "rejected"}

failedOf(results) ==
  {i \in DOMAIN results : results[i].status = "rejected" \/ ~results[i].value.success}

\* deleteFiles(filePaths): filePaths.map(deleteFile) calls deleteObject for
\* every path before anything is awaited.
deleteFilesCall(paths) ==
  /\ dPc = "idle"
  /\ dPaths' = paths
  /\ dSdk' = [i \in 1..Len(paths) |-> "pending"]
  /\ dResults' = [i \in 1..Len(paths) |-> Unsettled]
  /\ dPc' = "settling"
  /\ UNCHANGED <<blobs, dRet>>

\* One deleteObject settles, in any order, as the SDK decides: it resolves
\* (the object is gone afterwards) or rejects.
deleteFileSettle(i, sdk) ==
  /\ dPc = "settling"
  /\ i \in DOMAIN dSdk
  /\ dSdk[i] = "pending"
  /\ dSdk' = [dSdk EXCEPT ![i] = sdk]
  /\ blobs' = IF sdk = "ok" THEN blobs \ {dPaths[i]} ELSE blobs
  /\ dResults' = [dResults EXCEPT ![i] = deleteFile(sdk)]
  /\ UNCHANGED <<dPc, dPaths, dRet>>

\* Promise.allSettled resolves once every promise settled; the tally follows.
deleteFilesTally ==
  /\ dPc = "settling"
  /\ \A i \in DOMAIN dResults : dResults[i] # Unsettled
  /\ dRet' = [success |-> TRUE,
              results |-> [successful |-> Cardinality(successfulOf(dResults)),
                           failed |-> Cardinality(failedOf(dResults)),
                           total |-> Len(dPaths)]]
  /\ dPc' = "done"
  /\ UNCHANGED <<blobs, dPaths, dSdk, dResults>>

\* The other subsystems do not move.
DelFrame == UNCHANGED <<txVars, profVars, upVars, authVars>>

DelNext ==
  \/ \E paths \in SeqsUpTo(Paths, MaxPaths) : deleteFilesCall(paths) /\ DelFrame
  \/ \E i \in 1..MaxPaths, sdk \in {"ok", "err"} : deleteFileSettle(i, sdk) /\ DelFrame
  \/ deleteFilesTally /\ DelFrame

(***************************************************************************)
(* Fan-out query: getUserStatements and getUserTransactions                *)
(***************************************************************************)
UserIds == {"u1", "u2"}

\* Most statements the queried user owns.
MaxStatements == 12

\* Most transactions saved per statement.
MaxTxPer == 2

\* The size the code cuts the 'in' list to.
InLimit == 10

\* The limitCount getUserTransactions passes to getUserStatements.
StatementsLimit == 100

Min(a, b) == IF a < b THEN a ELSE b

\* Array.prototype.slice(from, to) on a sequence (0-based, `to` exclusive).
slice(s, from, to) == SubSeq(s, from + 1, Min(to, Len(s)))

\* Faulty variant of the 'in' list: the whole list, uncut.
sliceMutant(ids) == ids

\* statementIds.slice(0, 10) of line 364.
inClause(ids) == slice(ids, 0, InLimit)

\* orderBy(field, 'desc') over a set of documents with distinct keys.
RECURSIVE orderByDesc(_, _)
orderByDesc(S, field) ==
  IF S = {} THEN <<>>
  ELSE LET m == CHOOSE x \in S : \A y \in S : y[field] <= x[field]
       IN  <<m>> \o orderByDesc(S \ {m}, field)

\* limit(n) on an ordered result.
limit(s, n) == SubSeq(s, 1, Min(n, Len(s)))

NoFilters == [category |-> "", limit |-> 0]

Filters == [category : {"", "food"}, limit : {0, 1}]

\* The documents saveStatement / saveTransactions leave behind: n statements
\* of u1 (ids 1..n, created in that order), f statements of u2, and k
\* transactions under each statement.
statementDocs(n, f) ==
  {[id |-> i, userId |-> "u1", createdAt |-> i] : i \in 1..n}
    \cup {[id |-> n + j, userId |-> "u2", createdAt |-> n + j] : j \in 1..f}

transactionDocs(stmts, k) ==
  {[id |-> s.id * 10 + j, statementId |-> s.id, date |-> s.id * 10 + j,
    category |-> IF j % 2 = 1 THEN "food" ELSE "rent"] : s \in stmts, j \in 1..k}

TxInit ==
  /\ \E n \in 0..MaxStatements, f \in 0..1, k \in 1..MaxTxPer :
       /\ tStatements = statementDocs(n, f)
       /\ tTransactions = transactionDocs(statementDocs(n, f), k)
  /\ tPc = "idle"
  /\ tUserId = "null"
  /\ tFilters = NoFilters
  /\ tStatementIds = <<>>
  /\ tQueries = <<>>
  /\ tRet = Null

\* The rows getUserStatements(userId, limitCount) reads (lines 272-284).
getUserStatements(userId, limitCount) ==
  limit(orderByDesc({s \in tStatements : s.userId = userId}, "createdAt"), limitCount)

\* The rows of the transactions query of lines 362-382 for an 'in' list.
transactionsQuery(inIds, filters) ==
  LET matched == {t \in tTransactions :
                    /\ t.statementId \in Range(inIds)
                    /\ (filters.category # "" => t.category = filters.category)}
      ordered == orderByDesc(matched, "date")
  IN  IF filters.limit # 0 THEN limit(ordered, filters.limit) ELSE ordered

getUserTransactionsCall(userId, filters) ==
  /\ tPc = "idle"
  /\ tUserId' = userId
  /\ tFilters' = filters
  /\ tPc' = "statements"
  /\ UNCHANGED <<tStatements, tTransactions, tStatementIds, tQueries, tRet>>

\* getUserStatements settles: its failure result is returned as is (351-353),
\* an empty list returns early (357-359), otherwise the one query is issued.
getUserStatementsSettle(ok) ==
  /\ tPc = "statements"
  /\ IF ~ok
       THEN /\ tRet' = [success |-> FALSE, error |-> "statements query failed"]
            /\ tPc' = "done"
            /\ UNCHANGED <<tStatementIds, tQueries>>
       ELSE LET rows == getUserStatements(tUserId, StatementsLimit)
                ids == [i \in 1..Len(rows) |-> rows[i].id]
            IN  /\ tStatementIds' = ids
                /\ IF Len(ids) = 0
                     THEN /\ tRet' = [success |-> TRUE, data |-> <<>>]
                          /\ tPc' = "done"
                          /\ UNCHANGED tQueries
                     ELSE /\ tQueries' = Append(tQueries, inClause(ids))
                          /\ tPc' = "query"
                          /\ UNCHANGED tRet
  /\ UNCHANGED <<tStatements, tTransactions, tUserId, tFilters>>

\* getDocs(q) settles (377-388).
getDocsSettle(ok) ==
  /\ tPc = "query"
  /\ tRet' = IF ok
               THEN [success |-> TRUE,
                     data |-> transactionsQuery(tQueries[Len(tQueries)], tFilters)]
               ELSE [success |-> FALSE, error |-> "transactions query failed"]
  /\ tPc' = "done"
  /\ UNCHANGED <<tStatements, tTransactions, tUserId, tFilters, tStatementIds, tQueries>>

\* The other subsystems do not move.
TxFrame == UNCHANGED <<delVars, profVars, upVars, authVars>>

TxNext ==
  \/ \E u \in UserIds, f \in Filters : getUserTransactionsCall(u, f) /\ TxFrame
  \/ \E ok \in BOOLEAN : getUserStatementsSettle(ok) /\ TxFrame
  \/ \E ok \in BOOLEAN : getDocsSettle(ok) /\ TxFrame

(***************************************************************************)
(* signUp, signInWithGoogle and createUserDocument                         *)
(***************************************************************************)
\* Concurrent callers (tabs, devices, double clicks).
Procs == {"p1", "p2"}

NoDoc == Null

\* The displayName a Google account carries.
GoogleName == "G"

\* The document setDoc writes (lines 140-171): the defaults, with
\* ...additionalData spread last.  signUp passes { displayName }, and
\* signInWithGoogle passes nothing.
defaultUserDoc(kind, uid, name) ==
  [displayName |-> IF kind = "signUp" THEN name ELSE GoogleName,
   email |-> uid,
   theme |-> "light",
   plan |-> "free"]

ProfInit ==
  /\ accounts = {}
  /\ users = [u \in UserIds |-> NoDoc]
  /\ pPc = [p \in Procs |-> "idle"]
  /\ pKind = [p \in Procs |-> "none"]
  /\ pUid = [p \in Procs |-> "null"]
  /\ pName = [p \in Procs |-> ""]
  /\ pCred = [p \in Procs |-> "null"]
  /\ pExists = [p \in Procs |-> FALSE]
  /\ pRet = [p \in Procs |-> Null]

\* The catch blocks of signUp and signInWithGoogle (45-50, 91-96).
authFailure == [success |-> FALSE, error |-> "auth/error"]

\* The success results (37-44, 82-90).
authSuccess(uid) == [success |-> TRUE, user |-> [uid |-> uid]]

pEnter(p, kind, uid, name, pc) ==
  /\ pPc[p] \in {"idle", "done"}
  /\ pPc' = [pPc EXCEPT ![p] = pc]
  /\ pKind' = [pKind EXCEPT ![p] = kind]
  /\ pUid' = [pUid EXCEPT ![p] = uid]
  /\ pName' = [pName EXCEPT ![p] = name]
  /\ pCred' = [pCred EXCEPT ![p] = "null"]
  /\ pExists' = [pExists EXCEPT ![p] = FALSE]
  /\ pRet' = [pRet EXCEPT ![p] = Null]
  /\ UNCHANGED <<accounts, users>>

\* signUp(email, password, displayName) up to its first await (22-24); the
\* email stands for the uid the provider would assign to it.
signUpCall(p, uid, name) == pEnter(p, "signUp", uid, name, "createUser")

\* signInWithGoogle() up to its first await (74-76).
signInWithGoogleCall(p, uid) == pEnter(p, "google", uid, "", "popup")

pThrow(p) ==
  /\ pRet' = [pRet EXCEPT ![p] = authFailure]
  /\ pPc' = [pPc EXCEPT ![p] = "done"]

\* createUserWithEmailAndPassword settles: it creates the account unless the
\* email is taken or the request fails.
createUserSettle(p, ok) ==
  /\ pPc[p] = "createUser"
  /\ ok => pUid[p] \notin accounts
  /\ IF ok
       THEN /\ accounts' = accounts \cup {pUid[p]}
            /\ pCred' = [pCred EXCEPT ![p] = pUid[p]]
            /\ pPc' = [pPc EXCEPT ![p] = IF pName[p] # "" THEN "updateProfile" ELSE "getDoc"]
            /\ UNCHANGED pRet
       ELSE /\ pThrow(p)
            /\ UNCHANGED <<accounts, pCred>>
  /\ UNCHANGED <<users, pKind, pUid, pName, pExists>>

\* updateProfile settles (28-32).
updateProfileSettle(p, ok) ==
  /\ pPc[p] = "updateProfile"
  /\ IF ok
       THEN /\ pPc' = [pPc EXCEPT ![p] = "getDoc"]
            /\ UNCHANGED pRet
       ELSE pThrow(p)
  /\ UNCHANGED <<accounts, users, pKind, pUid, pName, pCred, pExists>>

\* signInWithPopup settles: a first sign-in creates the account.
popupSettle(p, ok) ==
  /\ pPc[p] = "popup"
  /\ IF ok
       THEN /\ accounts' = accounts \cup {pUid[p]}
            /\ pCred' = [pCred EXCEPT ![p] = pUid[p]]
            /\ pPc' = [pPc EXCEPT ![p] = "getDoc"]
            /\ UNCHANGED pRet
       ELSE /\ pThrow(p)
            /\ UNCHANGED <<accounts, pCred>>
  /\ UNCHANGED <<users, pKind, pUid, pName, pExists>>

\* createUserDocument's getDoc settles (132-136).  A rejection is outside
\* its try and reaches the caller's catch; an existing document makes
\* createUserDocument return at once, and the caller returns its success.
createUserDocumentRead(p, ok) ==
  /\ pPc[p] = "getDoc"
  /\ IF ~ok
       THEN /\ pThrow(p)
            /\ UNCHANGED pExists
       ELSE /\ pExists' = [pExists EXCEPT ![p] = users[pUid[p]] # NoDoc]
            /\ IF users[pUid[p]] # NoDoc
                 THEN /\ pRet' = [pRet EXCEPT ![p] = authSuccess(pCred[p])]
                      /\ pPc' = [pPc EXCEPT ![p] = "done"]
                 ELSE /\ pPc' = [pPc EXCEPT ![p] = "setDoc"]
                      /\ UNCHANGED pRet
  /\ UNCHANGED <<accounts, users, pKind, pUid, pName, pCred>>

\* createUserDocument's setDoc settles (139-177): it replaces whatever is
\* stored under the uid; its rejection is logged and swallowed.  Either way
\* the caller returns success.
createUserDocumentWrite(p, ok) ==
  /\ pPc[p] = "setDoc"
  /\ users' = IF ok
                THEN [users EXCEPT ![pUid[p]] = defaultUserDoc(pKind[p], pUid[p], pName[p])]
                ELSE users
  /\ pRet' = [pRet EXCEPT ![p] = authSuccess(pCred[p])]
  /\ pPc' = [pPc EXCEPT ![p] = "done"]
  /\ UNCHANGED <<accounts, pKind, pUid, pName, pCred, pExists>>

\* updateDocument('users', uid, { theme: 'dark' }): the user changes a
\* setting of an existing profile (AuthContext.js 203-215).
updateDocument(uid) ==
  /\ users[uid] # NoDoc
  /\ users[uid].theme = "light"
  /\ users' = [users EXCEPT ![uid].theme = "dark"]
  /\ UNCHANGED <<accounts, pPc, pKind, pUid, pName, pCred, pExists, pRet>>

\* The other subsystems do not move.
ProfFrame == UNCHANGED <<delVars, txVars, upVars, authVars>>

ProfNext ==
  \/ \E p \in Procs, u \in UserIds, n \in {"", "Ann"} : signUpCall(p, u, n) /\ ProfFrame
  \/ \E p \in Procs, u \in UserIds : signInWithGoogleCall(p, u) /\ ProfFrame
  \/ \E p \in Procs, ok \in BOOLEAN : createUserSettle(p, ok) /\ ProfFrame
  \/ \E p \in Procs, ok \in BOOLEAN : updateProfileSettle(p, ok) /\ ProfFrame
  \/ \E p \in Procs, ok \in BOOLEAN : popupSettle(p, ok) /\ ProfFrame
  \/ \E p \in Procs, ok \in BOOLEAN : createUserDocumentRead(p, ok) /\ ProfFrame
  \/ \E p \in Procs, ok \in BOOLEAN : createUserDocumentWrite(p, ok) /\ ProfFrame
  \/ \E u \in UserIds : updateDocument(u) /\ ProfFrame

(***************************************************************************)
(* validateFile, uploadFile and uploadStatement                            *)
(***************************************************************************)
maxSize == 10 * 1024 * 1024

allowedTypes == {"application/pdf", "image/jpeg", "image/jpg", "image/png", "image/webp"}

FileSizes == {0, maxSize - 1, maxSize, maxSize + 1}

FileTypes == allowedTypes \cup {"text/plain", ""}

Files == {Null} \cup [name : {"a.pdf"}, size : FileSizes, type : FileTypes]

\* Most onProgress notifications of one upload.
MaxProgress == 2

sizeError == [isValid |-> FALSE, error |-> "File size must be less than 10MB"]

typeError ==
  [isValid |-> FALSE,
   error |-> "File type not supported. Please upload PDF, JPEG, PNG, or WebP files."]

\* Faulty variant of validateFile: the type check before the size check.
validateFileMutant(file) ==
  IF file = Null THEN [isValid |-> FALSE, error |-> "No file selected"]
  ELSE IF file.type \notin allowedTypes THEN typeError
  ELSE IF file.size > maxSize THEN sizeError
  ELSE [isValid |-> TRUE]

validateFile(file) ==
  IF file = Null THEN [isValid |-> FALSE, error |-> "No file selected"]
  ELSE IF file.size > maxSize THEN sizeError
  ELSE IF file.type \notin allowedTypes THEN typeError
  ELSE [isValid |-> TRUE]

fulfilled(v) == [state |-> "fulfilled", value |-> v]

rejected(v) == [state |-> "rejected", value |-> v]

uploadFailure == [success |-> FALSE, error |-> "storage/error"]

UpInit ==
  /\ uPc = "idle"
  /\ uEntry = "none"
  /\ uFile = Null
  /\ uPath = ""
  /\ uOnProgress = FALSE
  /\ uValidation = Null
  /\ uStarted = FALSE
  /\ uProgress = 0
  /\ uRet = Null
  /\ uBefore = {}

\* uploadFile up to its first await (220-232, 269): validation, then the
\* call of uploadBytesResumable or uploadBytes.
uploadFile(file, path, onProgress) ==
  LET validationResult == validateFile(file)
  IN  /\ uFile' = file
      /\ uPath' = path
      /\ uOnProgress' = onProgress
      /\ uValidation' = validationResult
      /\ uProgress' = 0
      /\ uBefore' = blobs
      /\ IF ~validationResult.isValid
           THEN /\ uRet' = fulfilled([success |-> FALSE, error |-> validationResult.error])
                /\ uStarted' = FALSE
                /\ uPc' = "done"
           ELSE /\ uRet' = Null
                /\ uStarted' = TRUE
                /\ uPc' = IF onProgress THEN "resumable" ELSE "uploadBytes"
      /\ UNCHANGED blobs

uploadFileCall(file, path, onProgress) ==
  /\ uPc = "idle"
  /\ uEntry' = "uploadFile"
  /\ uploadFile(file, path, onProgress)

\* uploadStatement (292-298): file.name is read before uploadFile is called,
\* which throws a TypeError for a missing file.
uploadStatementCall(file, userId, onProgress) ==
  /\ uPc = "idle"
  /\ uEntry' = "uploadStatement"
  /\ IF file = Null
       THEN /\ uFile' = file
            /\ uOnProgress' = onProgress
            /\ uRet' = rejected([name |-> "TypeError"])
            /\ uPc' = "done"
            /\ uBefore' = blobs
            /\ UNCHANGED <<uPath, uValidation, uStarted, uProgress, blobs>>
       ELSE uploadFile(file, "statements/" \o userId \o "/" \o "1_" \o file.name, onProgress)

\* A rejection inside the completion callback's try is passed to reject
\* (261-263); in the simple branch the outer catch returns it (285-288).
uploadThrow == IF uOnProgress THEN rejected(uploadFailure) ELSE fulfilled(uploadFailure)

\* uploadBytes settles (269).
uploadBytesSettle(ok) ==
  /\ uPc = "uploadBytes"
  /\ IF ok
       THEN /\ blobs' = blobs \cup {uPath}
            /\ uPc' = "getDownloadURL"
            /\ UNCHANGED uRet
       ELSE /\ uRet' = fulfilled(uploadFailure)
            /\ uPc' = "done"
            /\ UNCHANGED blobs
  /\ UNCHANGED <<uEntry, uFile, uPath, uOnProgress, uValidation, uStarted, uProgress, uBefore>>

\* The task's 'state_changed' observer (237-240).
uploadProgress ==
  /\ uPc = "resumable"
  /\ uProgress < MaxProgress
  /\ uProgress' = uProgress + 1
  /\ UNCHANGED <<blobs, uPc, uEntry, uFile, uPath, uOnProgress, uValidation, uStarted, uRet, uBefore>>

\* The task's error observer (241-244).
uploadError ==
  /\ uPc = "resumable"
  /\ uRet' = rejected(uploadFailure)
  /\ uPc' = "done"
  /\ UNCHANGED <<blobs, uEntry, uFile, uPath, uOnProgress, uValidation, uStarted, uProgress, uBefore>>

\* The task completes; its completion observer starts (245-247).
uploadComplete ==
  /\ uPc = "resumable"
  /\ blobs' = blobs \cup {uPath}
  /\ uPc' = "getDownloadURL"
  /\ UNCHANGED <<uEntry, uFile, uPath, uOnProgress, uValidation, uStarted, uProgress, uRet, uBefore>>

\* getDownloadURL settles (247, 270).
getDownloadURLSettle(ok) ==
  /\ uPc = "getDownloadURL"
  /\ IF ok
       THEN /\ uPc' = "getMetadata"
            /\ UNCHANGED uRet
       ELSE /\ uRet' = uploadThrow
            /\ uPc' = "done"
  /\ UNCHANGED <<blobs, uEntry, uFile, uPath, uOnProgress, uValidation, uStarted, uProgress, uBefore>>

\* getMetadata settles and the result is built (248-260, 271-283).
getMetadataSettle(ok) ==
  /\ uPc = "getMetadata"
  /\ uRet' = IF ok
               THEN fulfilled([success |-> TRUE, url |-> uPath,
                               metadata |-> [name |-> uFile.name, size |-> uFile.size,
                                             contentType |-> uFile.type, fullPath |-> uPath]])
               ELSE uploadThrow
  /\ uPc' = "done"
  /\ UNCHANGED <<blobs, uEntry, uFile, uPath, uOnProgress, uValidation, uStarted, uProgress, uBefore>>

\* The other subsystems do not move.
UpFrame == UNCHANGED <<dPc, dPaths, dSdk, dResults, dRet, txVars, profVars, authVars>>

UpNext ==
  \/ \E f \in Files, path \in Paths, cb \in BOOLEAN : uploadFileCall(f, path, cb) /\ UpFrame
  \/ \E f \in Files, u \in UserIds, cb \in BOOLEAN : uploadStatementCall(f, u, cb) /\ UpFrame
  \/ \E ok \in BOOLEAN : uploadBytesSettle(ok) /\ UpFrame
  \/ uploadProgress /\ UpFrame
  \/ uploadError /\ UpFrame
  \/ uploadComplete /\ UpFrame
  \/ \E ok \in BOOLEAN : getDownloadURLSettle(ok) /\ UpFrame
  \/ \E ok \in BOOLEAN : getMetadataSettle(ok) /\ UpFrame

(***************************************************************************)
(* AuthProvider                                                            *)
(***************************************************************************)
\* Overlapping calls of the context's functions.
Calls == {"c1", "c2"}

\* Context calls made in one run.
MaxCalls == 2

SignInKinds == {"login", "register", "loginWithGoogle"}

\* The profile documents getCurrentUserData reads.
profileOf(uid) == [displayName |-> "", email |-> uid, theme |-> "light", plan |-> "free"]

AuthInit ==
  /\ user = "null"
  /\ userData = Null
  /\ loading = TRUE
  /\ error = "null"
  /\ authUser \in {"null", "u1"}
  /\ authQueue = <<authUser>>
  /\ fetches = [u \in UserIds |-> 0]
  /\ cPc = [c \in Calls |-> "idle"]
  /\ cKind = [c \in Calls |-> "none"]
  /\ cRes = [c \in Calls |-> Null]
  /\ cRet = [c \in Calls |-> Null]
  /\ errSetBy = "none"
  /\ started = 0

\* onAuthStateChanged notifies its observers when the signed-in uid changes.
notify(uid) == IF uid # authUser THEN Append(authQueue, uid) ELSE authQueue

\* login / register / loginWithGoogle up to the await (30-35, 49-54, 68-73):
\* setError(null), setLoading(true), then the facade call.
signInStart(c, kind) ==
  /\ kind \in SignInKinds
  /\ cPc[c] = "idle"
  /\ started < MaxCalls
  /\ started' = started + 1
  /\ error' = "null"
  /\ errSetBy' = c
  /\ loading' = TRUE
  /\ cPc' = [cPc EXCEPT ![c] = "awaiting"]
  /\ cKind' = [cKind EXCEPT ![c] = kind]
  /\ cRes' = [cRes EXCEPT ![c] = Null]
  /\ cRet' = [cRet EXCEPT ![c] = Null]
  /\ UNCHANGED <<user, userData, authUser, authQueue, fetches>>

\* signIn / signUp / signInWithGoogle settles.  "ok" resolves to
\* { success: true } with uid signed in; "fail" resolves to
\* { success: false, error }; "throw" rejects (handleFirebaseError itself
\* throwing inside the facade's catch).  signUp and signInWithGoogle can
\* fail after the provider signed the user in (session # "null").
facadeSettle(c, outcome, session) ==
  /\ cPc[c] = "awaiting"
  /\ cKind[c] \in SignInKinds
  /\ outcome = "ok" => session # "null"
  /\ (outcome # "ok" /\ cKind[c] = "login") => session = "null"
  /\ cRes' = [cRes EXCEPT ![c] =
                IF outcome = "ok" THEN [outcome |-> "ok"]
                ELSE IF outcome = "fail" THEN [outcome |-> "fail", error |-> "auth/error"]
                ELSE [outcome |-> "throw", error |-> "exception"]]
  /\ IF session # "null"
       THEN /\ authUser' = session
            /\ authQueue' = notify(session)
       ELSE UNCHANGED <<authUser, authQueue>>
  /\ cPc' = [cPc EXCEPT ![c] = "settled"]
  /\ UNCHANGED <<user, userData, loading, error, fetches, cKind, cRet, errSetBy, started>>

\* Faulty variant of the try / catch: the catch forgets setError.
signInOutcomeMutant(res) ==
  IF res.outcome = "ok"
    THEN [ret |-> [success |-> TRUE], setError |-> FALSE, error |-> "null"]
  ELSE IF res.outcome = "fail"
    THEN [ret |-> [success |-> FALSE, error |-> res.error], setError |-> TRUE, error |-> res.error]
  ELSE [ret |-> [success |-> FALSE, error |-> res.error], setError |-> FALSE, error |-> "null"]

\* What the try / catch of lines 34-43 does with the awaited result: the
\* value returned, and the setError call made (if any).
signInOutcome(res) ==
  IF res.outcome = "ok"
    THEN [ret |-> [success |-> TRUE], setError |-> FALSE, error |-> "null"]
    ELSE [ret |-> [success |-> FALSE, error |-> res.error], setError |-> TRUE, error |-> res.error]

\* The continuation after the await, with its finally (36-46, 55-65, 74-84).
signInResume(c) ==
  /\ cPc[c] = "settled"
  /\ cKind[c] \in SignInKinds
  /\ LET o == signInOutcome(cRes[c])
     IN  /\ cRet' = [cRet EXCEPT ![c] = o.ret]
         /\ error' = IF o.setError THEN o.error ELSE error
         /\ errSetBy' = IF o.setError THEN c ELSE errSetBy
  /\ loading' = FALSE
  /\ cRes' = [cRes EXCEPT ![c] = Null]
  /\ cKind' = [cKind EXCEPT ![c] = "none"]
  /\ cPc' = [cPc EXCEPT ![c] = "idle"]
  /\ UNCHANGED <<user, userData, authUser, authQueue, fetches, started>>

\* logout up to its await (87-90).
logoutStart(c) ==
  /\ cPc[c] = "idle"
  /\ started < MaxCalls
  /\ started' = started + 1
  /\ error' = "null"
  /\ errSetBy' = c
  /\ cPc' = [cPc EXCEPT ![c] = "awaiting"]
  /\ cKind' = [cKind EXCEPT ![c] = "logout"]
  /\ cRes' = [cRes EXCEPT ![c] = Null]
  /\ cRet' = [cRet EXCEPT ![c] = Null]
  /\ UNCHANGED <<user, userData, loading, authUser, authQueue, fetches>>

\* logOut settles (auth.js 100-110): signOut's rejection becomes the
\* resolved { success: false, error }; "throw" as in facadeSettle.
logOutSettle(c, outcome) ==
  /\ cPc[c] = "awaiting"
  /\ cKind[c] = "logout"
  /\ cRes' = [cRes EXCEPT ![c] =
                IF outcome = "ok" THEN [outcome |-> "ok"]
                ELSE IF outcome = "fail" THEN [outcome |-> "fail", error |-> "auth/error"]
                ELSE [outcome |-> "throw", error |-> "exception"]]
  /\ IF outcome = "ok"
       THEN /\ authUser' = "null"
            /\ authQueue' = notify("null")
       ELSE UNCHANGED <<authUser, authQueue>>
  /\ cPc' = [cPc EXCEPT ![c] = "settled"]
  /\ UNCHANGED <<user, userData, loading, error, fetches, cKind, cRet, errSetBy, started>>

\* logout after its await (90-97): the resolved value of logOut() is not
\* looked at; only a rejection reaches the catch.
logoutResume(c) ==
  /\ cPc[c] = "settled"
  /\ cKind[c] = "logout"
  /\ IF cRes[c].outcome = "throw"
       THEN /\ error' = cRes[c].error
            /\ errSetBy' = c
            /\ cRet' = [cRet EXCEPT ![c] = [success |-> FALSE, error |-> cRes[c].error]]
            /\ UNCHANGED <<user, userData>>
       ELSE /\ user' = "null"
            /\ userData' = Null
            /\ cRet' = [cRet EXCEPT ![c] = [success |-> TRUE]]
            /\ UNCHANGED <<error, errSetBy>>
  /\ cRes' = [cRes EXCEPT ![c] = Null]
  /\ cKind' = [cKind EXCEPT ![c] = "none"]
  /\ cPc' = [cPc EXCEPT ![c] = "idle"]
  /\ UNCHANGED <<loading, authUser, authQueue, fetches, started>>

\* The auth-state callback up to its await (117-129), or all of its else
\* branch (131-135).
authStateChanged ==
  /\ authQueue # <<>>
  /\ LET firebaseUser == Head(authQueue)
     IN  IF firebaseUser # "null"
           THEN /\ user' = firebaseUser
                /\ fetches' = [fetches EXCEPT ![firebaseUser] = @ + 1]
                /\ UNCHANGED <<userData, loading>>
           ELSE /\ user' = "null"
                /\ userData' = Null
                /\ loading' = FALSE
                /\ UNCHANGED fetches
  /\ authQueue' = Tail(authQueue)
  /\ UNCHANGED <<error, authUser, cPc, cKind, cRes, cRet, errSetBy, started>>

\* Faulty variant of getCurrentUserData: no catch, so a getDoc rejection
\* propagates to the awaiting callback.
getCurrentUserDataMutant(uid, ok) ==
  IF ~ok THEN [threw |-> TRUE, value |-> Null]
  ELSE [threw |-> FALSE, value |-> users[uid]]

\* getCurrentUserData (auth.js 181-196): the document's data, or null when
\* it does not exist or getDoc rejects; it never rejects itself.
getCurrentUserData(uid, ok) ==
  IF ok /\ users[uid] # NoDoc
    THEN [threw |-> FALSE, value |-> users[uid]]
    ELSE [threw |-> FALSE, value |-> Null]

\* The callback after its await (129-135); the fetches of different
\* notifications settle in any order.  A rejected await would end the
\* callback there.
authStateResume(uid, ok) ==
  /\ fetches[uid] > 0
  /\ LET r == getCurrentUserData(uid, ok)
     IN  IF r.threw
           THEN UNCHANGED <<userData, loading>>
           ELSE /\ userData' = r.value
                /\ loading' = FALSE
  /\ fetches' = [fetches EXCEPT ![uid] = @ - 1]
  /\ UNCHANGED <<user, error, authUser, authQueue, cPc, cKind, cRes, cRet, errSetBy, started>>

Outcomes == {"ok", "fail", "throw"}

\* The other subsystems do not move.
AuthFrame == UNCHANGED <<delVars, txVars, profVars, upVars>>

AuthNext ==
  \/ \E c \in Calls, kind \in SignInKinds : signInStart(c, kind) /\ AuthFrame
  \/ \E c \in Calls, o \in Outcomes, s \in {"null"} \cup UserIds : facadeSettle(c, o, s) /\ AuthFrame
  \/ \E c \in Calls : signInResume(c) /\ AuthFrame
  \/ \E c \in Calls : logoutStart(c) /\ AuthFrame
  \/ \E c \in Calls, o \in Outcomes : logOutSettle(c, o) /\ AuthFrame
  \/ \E c \in Calls : logoutResume(c) /\ AuthFrame
  \/ authStateChanged /\ AuthFrame
  \/ \E u \in UserIds, ok \in BOOLEAN : authStateResume(u, ok) /\ AuthFrame

(***************************************************************************)
(* Specifications                                                          *)
(***************************************************************************)
ProfIdle ==
  /\ pPc = [p \in Procs |-> "idle"]
  /\ pKind = [p \in Procs |-> "none"]
  /\ pUid = [p \in Procs |-> "null"]
  /\ pName = [p \in Procs |-> ""]
  /\ pCred = [p \in Procs |-> "null"]
  /\ pExists = [p \in Procs |-> FALSE]
  /\ pRet = [p \in Procs |-> Null]

\* The auth-state callback's Firestore: u1 has its profile, and u2's was
\* never written (its setDoc failed at sign-up).
AuthStore ==
  /\ accounts = UserIds
  /\ users = [u \in UserIds |-> IF u = "u1" THEN profileOf(u) ELSE NoDoc]
  /\ ProfIdle

\* A specification of one subsystem holds the others in one idle state.
DelOff ==
  /\ blobs = {}
  /\ dPc = "idle"
  /\ dPaths = <<>>
  /\ dSdk = <<>>
  /\ dResults = <<>>
  /\ dRet = Null

TxOff ==
  /\ tStatements = {}
  /\ tTransactions = {}
  /\ tPc = "idle"
  /\ tUserId = "null"
  /\ tFilters = NoFilters
  /\ tStatementIds = <<>>
  /\ tQueries = <<>>
  /\ tRet = Null

AuthOff ==
  /\ AuthInit
  /\ authUser = "null"

InitDelete == DelInit /\ TxOff /\ ProfInit /\ UpInit /\ AuthOff

SpecDelete == InitDelete /\ [][DelNext]_vars

InitTx == DelOff /\ TxInit /\ ProfInit /\ UpInit /\ AuthOff

SpecTx == InitTx /\ [][TxNext]_vars

InitProfile == DelOff /\ TxOff /\ ProfInit /\ UpInit /\ AuthOff

SpecProfile == InitProfile /\ [][ProfNext]_vars

InitUpload == DelInit /\ TxOff /\ ProfInit /\ UpInit /\ AuthOff

SpecUpload == InitUpload /\ [][UpNext]_vars

InitAuth == DelOff /\ TxOff /\ AuthStore /\ UpInit /\ AuthInit

SpecAuth == InitAuth /\ [][AuthNext]_vars

\* The steps that are not the user's choice: an SDK promise settles, a
\* continuation runs, a notification is delivered.
AuthProgress ==
  \/ \E c \in Calls, o \in Outcomes, s \in {"null"} \cup UserIds : facadeSettle(c, o, s) /\ AuthFrame
  \/ \E c \in Calls : signInResume(c) /\ AuthFrame
  \/ \E c \in Calls, o \in Outcomes : logOutSettle(c, o) /\ AuthFrame
  \/ \E c \in Calls : logoutResume(c) /\ AuthFrame
  \/ authStateChanged /\ AuthFrame
  \/ \E u \in UserIds, ok \in BOOLEAN : authStateResume(u, ok) /\ AuthFrame

\* Every SDK promise eventually settles, continuations run, and pending
\* notifications are delivered.
LiveSpecAuth ==
  /\ SpecAuth
  /\ WF_vars(AuthProgress)


(***************************************************************************)
(* Properties                                                              *)
(***************************************************************************)

\* C1: deleteFiles attempts one delete per path and tallies the outcomes.
\* Once it has returned, every path's deleteObject was attempted and has
\* settled, the result is success: true, total is the number of paths,
\* successful is the number of deleteObject calls that succeeded, failed the
\* number that rejected, and successful + failed = total.
C1_DeleteTally ==
  dPc = "done" =>
    /\ \A i \in 1..Len(dPaths) : dSdk[i] \in {"ok", "err"}
    /\ dRet.success = TRUE
    /\ dRet.results.total = Len(dPaths)
    /\ dRet.results.successful = Cardinality({i \in 1..Len(dPaths) : dSdk[i] = "ok"})
    /\ dRet.results.failed = Cardinality({i \in 1..Len(dPaths) : dSdk[i] = "err"})
    /\ dRet.results.successful + dRet.results.failed = dRet.results.total

\* A batch in which one delete failed and a later path was still deleted.
C1_Witness ==
  /\ dPc = "done"
  /\ \E i, j \in 1..Len(dPaths) : i < j /\ dSdk[i] = "err" /\ dSdk[j] = "ok"
  /\ dRet.results.failed >= 1
  /\ dRet.results.successful >= 1

\* C2: getUserTransactions(userId) without filters queries the statement-ID
\* list in chunks of at most 10 and returns the transactions of every
\* statement ID of the list: every ID is in the 'in' list of some query,
\* and no transaction of a listed statement is missing from the data.
C2_EveryStatementQueried ==
  (tPc = "done" /\ tRet.success /\ tFilters = NoFilters) =>
    /\ \A k \in 1..Len(tQueries) : Len(tQueries[k]) <= InLimit
    /\ \A i \in 1..Len(tStatementIds) :
         \E k \in 1..Len(tQueries) : tStatementIds[i] \in Range(tQueries[k])
    /\ \A t \in tTransactions :
         t.statementId \in Range(tStatementIds) => t \in Range(tRet.data)

\* C3: no transactions query carries more than 10 statement IDs in its
\* 'in' filter, and a user without statements causes no query at all: the
\* call then returns { success: true, data: [] } (or the failure of the
\* statements query itself).
C3_InLimitRespected ==
  /\ \A k \in 1..Len(tQueries) : Len(tQueries[k]) <= InLimit
  /\ (tPc # "idle" /\ {s \in tStatements : s.userId = tUserId} = {}) =>
       /\ tQueries = <<>>
       /\ (tPc = "done" /\ tRet.success) => tRet = [success |-> TRUE, data |-> <<>>]

\* A user with more than 10 statements whose query was issued.
C3_Witness ==
  /\ tPc = "done"
  /\ Len(tStatementIds) > InLimit
  /\ Len(tQueries) = 1
  /\ Len(tQueries[1]) = InLimit
\* C4: the default profile document is created only on first sign-in: under
\* every interleaving of signUp and signInWithGoogle calls, a setDoc of
\* createUserDocument never lands on a uid whose profile document already
\* exists, so an existing document is never overwritten or reset.
C4_ProfileWrittenOnce ==
  [][\A p \in Procs :
       (pPc[p] = "setDoc" /\ pPc'[p] = "done" /\ users'[pUid[p]] # users[pUid[p]])
         => users[pUid[p]] = NoDoc]_vars

\* C5: a signUp or signInWithGoogle that returned success: true left a
\* profile document for the returned uid, and one that returned
\* success: false obtained no account or session from the provider.
C5_SuccessMeansProfile ==
  \A p \in Procs :
    pPc[p] = "done" =>
      IF pRet[p].success
        THEN users[pRet[p].user.uid] # NoDoc
        ELSE pCred[p] = "null"

\* C6: validateFile checks in a fixed order: a missing file gives 'No file
\* selected'; otherwise a file over the size limit gives the size error,
\* whatever its type; otherwise a type outside the allowed five gives the
\* type error; and isValid is true exactly when none of the three fails.
C6_ValidationOrder ==
  uValidation # Null =>
    /\ IF uFile = Null
         THEN uValidation = [isValid |-> FALSE, error |-> "No file selected"]
         ELSE IF uFile.size > 10485760
           THEN uValidation = sizeError
           ELSE IF uFile.type \notin {"application/pdf", "image/jpeg", "image/jpg",
                                      "image/png", "image/webp"}
             THEN uValidation = typeError
             ELSE uValidation = [isValid |-> TRUE]
    /\ uValidation.isValid <=>
         (uFile # Null /\ uFile.size <= 10485760
            /\ uFile.type \in {"application/pdf", "image/jpeg", "image/jpg",
                               "image/png", "image/webp"})

\* An oversized file of an unsupported type was validated.
C6_Witness ==
  /\ uValidation = sizeError
  /\ uFile # Null
  /\ uFile.size > 10485760
  /\ uFile.type = "text/plain"

\* C7: every file validateFile accepts, and so every file whose upload is
\* started, is strictly smaller than 10 * 1024 * 1024 bytes.
C7_AcceptedBelowLimit ==
  /\ (uValidation # Null /\ uValidation.isValid) => uFile.size < 10485760
  /\ uStarted => uFile.size < 10485760

\* C8: when validateFile rejects the file, uploadFile and uploadStatement
\* return { success: false, error: <the validation error> }, start no
\* upload, leave storage unchanged and never call onProgress; an upload is
\* started only for a file validateFile accepts.
C8_ValidateBeforeUpload ==
  /\ (uPc # "idle" /\ ~validateFile(uFile).isValid) =>
       /\ uRet = fulfilled([success |-> FALSE, error |-> validateFile(uFile).error])
       /\ ~uStarted
       /\ blobs = uBefore
       /\ uProgress = 0
  /\ uStarted => validateFile(uFile).isValid
\* C9: login, register and loginWithGoogle handle errors uniformly.  The
\* step that starts one clears the error state; the step that finishes one
\* whose facade call reported failure or threw returns
\* { success: false, error } and leaves that message in the error state; the
\* step that finishes a successful one returns { success: true } and does
\* not touch the error state, which is null unless another call set it
\* meanwhile; and no step of the call writes user or userData.
C9_UniformErrors ==
  [][\A c \in Calls :
       /\ (cPc[c] = "idle" /\ cPc'[c] = "awaiting" /\ cKind'[c] \in SignInKinds)
            => (error' = "null" /\ user' = user /\ userData' = userData)
       /\ (cPc[c] = "awaiting" /\ cPc'[c] = "settled" /\ cKind[c] \in SignInKinds)
            => (error' = error /\ user' = user /\ userData' = userData)
       /\ (cPc[c] = "settled" /\ cPc'[c] = "idle" /\ cKind[c] \in SignInKinds)
            => /\ user' = user
               /\ userData' = userData
               /\ IF cRes[c].outcome = "ok"
                    THEN /\ cRet'[c] = [success |-> TRUE]
                         /\ error' = error
                         /\ errSetBy = c => error' = "null"
                    ELSE /\ cRet'[c] = [success |-> FALSE, error |-> cRes[c].error]
                         /\ error' = cRes[c].error]_vars

\* A sign-in call whose facade call threw has returned, with the thrown
\* message in the error state, while another has returned success.
C9_Witness ==
  \E c, d \in Calls :
    /\ cPc[c] = "idle"
    /\ cRet[c] = [success |-> FALSE, error |-> "exception"]
    /\ error = "exception"
    /\ errSetBy = c
    /\ cPc[d] = "idle"
    /\ cRet[d] = [success |-> TRUE]

\* C10: the loading flag never sticks at true: provided every SDK promise
\* settles, every state with loading = true is followed by a state with
\* loading = false.
C10_LoadingSettles == loading ~> ~loading

\* A sign-in call that threw has finished and a profile fetch has come
\* back, and loading is false.
C10_Witness ==
  /\ ~loading
  /\ \E c \in Calls : cPc[c] = "idle" /\ cRet[c] = [success |-> FALSE, error |-> "exception"]
  /\ user # "null"
  /\ userData = Null
  /\ \A u \in UserIds : fetches[u] = 0
  /\ authQueue = <<>>

\* C11: userData belongs to the current user: whenever userData is not null,
\* user is not null and userData is the profile document of user.uid, under
\* every interleaving of auth-state notifications, logout calls and the
\* completion of getCurrentUserData fetches started by earlier notifications.
C11_UserDataOfCurrentUser ==
  userData # Null => (user # "null" /\ userData = users[user])

\* C12: logout reports success only when the sign-out succeeded: the step
\* that finishes a logout whose signOut failed returns
\* { success: false, error }, sets the error state and leaves user and
\* userData unchanged; only after a successful signOut does it return
\* { success: true } and clear user and userData.
C12_LogoutReportsFailure ==
  [][\A c \in Calls :
       (cPc[c] = "settled" /\ cPc'[c] = "idle" /\ cKind[c] = "logout")
         => IF cRes[c].outcome = "ok"
              THEN /\ cRet'[c] = [success |-> TRUE]
                   /\ user' = "null"
                   /\ userData' = Null
              ELSE /\ cRet'[c] = [success |-> FALSE, error |-> cRes[c].error]
                   /\ error' = cRes[c].error
                   /\ user' = user
                   /\ userData' = userData]_vars

\* C13: uploadFile never rejects or throws: with or without an onProgress
\* callback, the promise it returned has fulfilled with a result object,
\* which is { success: false, error } when validation fails, when the
\* upload fails, or when fetching the download URL or the metadata fails,
\* and { success: true, url, metadata } otherwise.
C13_UploadNeverRejects ==
  (uEntry = "uploadFile" /\ uPc = "done") =>
    /\ uRet.state = "fulfilled"
    /\ IF uRet.value.success
         THEN /\ DOMAIN uRet.value = {"success", "url", "metadata"}
              /\ uValidation.isValid
              /\ uPath \in blobs
         ELSE DOMAIN uRet.value = {"success", "error"}

====
